---- MODULE Spec2Model ----
(***************************************************************************)
(* Model of the account ledger of thanglishpro:                            *)
(*   - server/utils/userStore.ts : the ledger document, the promise-chain  *)
(*     lock (withLock) and the store operations built on updateUser;       *)
(*   - the Express server (unnamed/part_005) : the request handlers        *)
(*     /usage/consume, /subscription/confirm and /subscription/start-trial *)
(*     that call the store.                                                *)
(*   - the App component of the client (unnamed/part_002) : handleGenerate *)
(*     and handleCancel, with the server's answers as inputs.              *)
(*                                                                         *)
(* Node runs every continuation to its next await without interruption,    *)
(* so one action of the model is one such run: a request arriving (up to   *)
(* its first await), a locked operation's file read completing (followed   *)
(* by the mutator and the start of the write), or its file write           *)
(* completing (followed by the awaiting handler's continuation up to its   *)
(* next await).  The clock (Date.now()) advances between any two runs.     *)
(***************************************************************************)
EXTENDS Integers, Sequences, FiniteSets, TLC

\* ------------------------------------------------------------------ bounds
MaxReqs == 2        \* requests / store calls issued in one behaviour
MaxClock == 2       \* the clock runs over 0..MaxClock
MinuteUnits == 2    \* minutes are counted in 1/MinuteUnits of a minute
TicksPerDay == 1    \* clock ticks in one day
MaxRuns == 2        \* runs of handleGenerate in one behaviour of the client

\* ------------------------------------------------------- program constants
WALLET_COST_PER_MINUTE_PAISE == 100
TRIAL_MINUTES == 60
TRIAL_DURATION_MS == 2 * TicksPerDay
PLAN_DURATION_MS == 30 * TicksPerDay
HISTORY_CAP == 50
SRT_HISTORY_CAP == 10

PlanIds == {"editor-basic", "creator-pro", "editor-max", "studio-agency"}

PLANS ==
  [p \in PlanIds |->
     CASE p = "editor-basic"  -> [minutesIncluded |-> 200 * MinuteUnits, priceInPaise |-> 29900]
       [] p = "creator-pro"   -> [minutesIncluded |-> 500 * MinuteUnits, priceInPaise |-> 59900]
       [] p = "editor-max"    -> [minutesIncluded |-> 1200 * MinuteUnits, priceInPaise |-> 99900]
       [] p = "studio-agency" -> [minutesIncluded |-> 2400 * MinuteUnits, priceInPaise |-> 149900]]

\* ------------------------------------------------------------------- values
\* An optional value (undefined or a value) is a sequence of length 0 or 1.
None == <<>>
Some(x) == <<x>>

Accounts == {"u1", "u2"}
Reqs == 1..MaxReqs

\* Math.floor in place of Math.ceil
Floor(m) == m \div MinuteUnits

\* Math.ceil of a number of minutes held in 1/MinuteUnits
Ceil(m) == (m + MinuteUnits - 1) \div MinuteUnits

Min(a, b) == IF a < b THEN a ELSE b

VARIABLES
  users,     \* the ledger document users.json: account id -> optional UserAccount
  users0,    \* the ledger document at the start (history, never read by the program)
  clock,     \* Date.now()
  chain,     \* the promise chain of withLock: the unsettled operations, oldest first
  chainOk,   \* TRUE iff the latest settled link of the chain is fulfilled
  req,       \* the requests (handler runs and store calls) and their local state
  app        \* the client: the state of the App component and its handleGenerate runs

vars == <<users, users0, clock, chain, chainOk, req, app>>

\* ---------------------------------------------------------- account records
freshUser(t, profile) ==
  [walletBalancePaise |-> 0, trial |-> None, activePlan |-> None,
   paymentHistory |-> <<>>,
   email |-> profile.email, name |-> profile.name, picture |-> profile.picture,
   createdAt |-> t, updatedAt |-> t]

NoProfile == [email |-> None, name |-> None, picture |-> None]

\* ------------------------------------------------------------ the mutators
\* A mutator returns normally (ok) with the mutated record, or throws (err).
\* The record a throwing mutator leaves behind is kept in the result: it is the
\* in-memory object at the time of the throw.
\* a throw that is swallowed: the mutator returns with the record as it is
ThrowSwallowed(user, msg) == [ok |-> TRUE, user |-> user, err |-> ""]
Return(user) == [ok |-> TRUE, user |-> user, err |-> ""]
Throw(user, msg) == [ok |-> FALSE, user |-> user, err |-> msg]

\* recordPayment with push in place of unshift: the new record goes last
recordPaymentPushed(user, data, t) ==
  LET pushed == user.paymentHistory \o
                  <<[type |-> data.type, amountInPaise |-> data.amountInPaise,
                     planId |-> data.planId,
                     razorpayOrderId |-> data.razorpayOrderId,
                     razorpayPaymentId |-> data.razorpayPaymentId,
                     createdAt |-> t]>>
  IN Return([user EXCEPT !.paymentHistory =
                 SubSeq(pushed, 1, Min(Len(pushed), HISTORY_CAP))])

\* recordPayment without the slice(0, 50)
recordPaymentUncapped(user, data, t) ==
  Return([user EXCEPT !.paymentHistory =
            <<[type |-> data.type, amountInPaise |-> data.amountInPaise,
               planId |-> data.planId,
               razorpayOrderId |-> data.razorpayOrderId,
               razorpayPaymentId |-> data.razorpayPaymentId,
               createdAt |-> t]>> \o @])

recordPayment(user, data, t) ==
  LET unshifted == <<[type |-> data.type, amountInPaise |-> data.amountInPaise,
                      planId |-> data.planId,
                      razorpayOrderId |-> data.razorpayOrderId,
                      razorpayPaymentId |-> data.razorpayPaymentId,
                      createdAt |-> t]>> \o user.paymentHistory
  IN Return([user EXCEPT !.paymentHistory =
                 SubSeq(unshifted, 1, Min(Len(unshifted), HISTORY_CAP))])

\* activatePlan that carries the minutes left on the previous plan over
activatePlanRollover(user, activePlan) ==
  Return([user EXCEPT !.activePlan =
            Some([activePlan EXCEPT !.remainingMinutes =
                    @ + (IF user.activePlan = None THEN 0
                         ELSE user.activePlan[1].remainingMinutes)])])

activatePlan(user, activePlan) ==
  Return([user EXCEPT !.activePlan = Some(activePlan)])

setTrialInfo(user, trial) ==
  Return([user EXCEPT !.trial = Some(trial)])

\* adjustWallet without the check of the new balance
adjustWalletUnchecked(user, deltaPaise) ==
  Return([user EXCEPT !.walletBalancePaise = @ + deltaPaise])

adjustWallet(user, deltaPaise) ==
  LET next == user.walletBalancePaise + deltaPaise
  IN IF next < 0
       THEN Throw(user, "Insufficient wallet balance")
       ELSE Return([user EXCEPT !.walletBalancePaise = next])

clearTrial(user) ==
  Return([user EXCEPT !.trial = None])

\* ensureActivePlanMinutes without the check of the minutes left
ensureActivePlanMinutesUnchecked(user, minutes) ==
  IF user.activePlan = None
    THEN Throw(user, "No active plan")
  ELSE Return([user EXCEPT !.activePlan =
                 Some([user.activePlan[1] EXCEPT !.remainingMinutes = @ - minutes])])

ensureActivePlanMinutes(user, minutes) ==
  IF user.activePlan = None
    THEN Throw(user, "No active plan")
  ELSE IF user.activePlan[1].remainingMinutes < minutes
    THEN Throw(user, "Insufficient plan minutes")
  ELSE Return([user EXCEPT !.activePlan =
                 Some([user.activePlan[1] EXCEPT !.remainingMinutes = @ - minutes])])

\* consumeTrialMinutes without the check of the cap
consumeTrialMinutesUncapped(user, minutes, t) ==
  IF user.trial = None \/ ~user.trial[1].active
    THEN Throw(user, "Trial inactive")
  ELSE IF user.trial[1].expiresAt < t
    THEN Throw([user EXCEPT !.trial = Some([user.trial[1] EXCEPT !.active = FALSE])],
               "Trial expired")
  ELSE Return([user EXCEPT !.trial =
                 Some([user.trial[1] EXCEPT !.consumedMinutes = @ + minutes])])

consumeTrialMinutes(user, minutes, t) ==
  IF user.trial = None \/ ~user.trial[1].active
    THEN Throw(user, "Trial inactive")
  ELSE IF user.trial[1].expiresAt < t
    THEN Throw([user EXCEPT !.trial = Some([user.trial[1] EXCEPT !.active = FALSE])],
               "Trial expired")
  ELSE IF user.trial[1].consumedMinutes + minutes > user.trial[1].maxMinutes
    THEN Throw(user, "Trial minutes exceeded")
  ELSE Return([user EXCEPT !.trial =
                 Some([user.trial[1] EXCEPT !.consumedMinutes = @ + minutes])])

\* ------------------------------------------------------ store operations
\* A store operation handed to withLock: the function, the account and its argument.
NoOp == [fn |-> "none", userId |-> "", arg |-> 0]
Op(fn, userId, arg) == [fn |-> fn, userId |-> userId, arg |-> arg]

mutator(op, user, t) ==
  CASE op.fn = "recordPayment"       -> recordPayment(user, op.arg, t)
    [] op.fn = "activatePlan"        -> activatePlan(user, op.arg)
    [] op.fn = "setTrialInfo"        -> setTrialInfo(user, op.arg)
    [] op.fn = "adjustWallet"        -> adjustWallet(user, op.arg)
    [] op.fn = "clearTrial"          -> clearTrial(user)
    [] op.fn = "ensureActivePlanMinutes" -> ensureActivePlanMinutes(user, op.arg)
    [] op.fn = "consumeTrialMinutes" -> consumeTrialMinutes(user, op.arg, t)

\* updateUser on the document read from the file, up to the call of writeAllUsers:
\* throws (nothing is written), or yields the document to write.
updateUser(doc, op, t) ==
  IF doc[op.userId] = None
    THEN [ok |-> FALSE, doc |-> doc, err |-> "User not found"]
  ELSE LET m == mutator(op, doc[op.userId][1], t)
       IN IF ~m.ok
            THEN [ok |-> FALSE, doc |-> doc, err |-> m.err]
            ELSE [ok |-> TRUE,
                  doc |-> [doc EXCEPT ![op.userId] = Some([m.user EXCEPT !.updatedAt = t])],
                  err |-> ""]

\* getOrCreateUser without the nullish coalescing: a profile field that is not
\* supplied clears the stored one
getOrCreateUserAssigning(doc, userId, profile, t) ==
  IF doc[userId] # None
    THEN IF profile # None
           THEN LET existing == [doc[userId][1] EXCEPT
                                   !.email = profile[1].email,
                                   !.name = profile[1].name,
                                   !.picture = profile[1].picture,
                                   !.updatedAt = t]
                IN [write |-> TRUE, doc |-> [doc EXCEPT ![userId] = Some(existing)],
                    value |-> Some(existing)]
           ELSE [write |-> FALSE, doc |-> doc, value |-> doc[userId]]
    ELSE LET fresh == freshUser(t, IF profile = None THEN NoProfile ELSE profile[1])
         IN [write |-> TRUE, doc |-> [doc EXCEPT ![userId] = Some(fresh)],
             value |-> Some(fresh)]

\* getOrCreateUser on the document read from the file, up to the call of
\* writeAllUsers (write) or to its return without one; profile is None when the
\* argument is omitted
getOrCreateUser(doc, userId, profile, t) ==
  IF doc[userId] # None
    THEN IF profile # None
           THEN LET existing == [doc[userId][1] EXCEPT
                                   !.email = IF profile[1].email # None
                                               THEN profile[1].email ELSE @,
                                   !.name = IF profile[1].name # None
                                              THEN profile[1].name ELSE @,
                                   !.picture = IF profile[1].picture # None
                                                 THEN profile[1].picture ELSE @,
                                   !.updatedAt = t]
                IN [write |-> TRUE, doc |-> [doc EXCEPT ![userId] = Some(existing)],
                    value |-> Some(existing)]
           ELSE [write |-> FALSE, doc |-> doc, value |-> doc[userId]]
    ELSE LET fresh == freshUser(t, IF profile = None THEN NoProfile ELSE profile[1])
         IN [write |-> TRUE, doc |-> [doc EXCEPT ![userId] = Some(fresh)],
             value |-> Some(fresh)]

\* --------------------------------------------------------------- requests
NoDoc == [a \in Accounts |-> None]
NoIn == [minutes |-> 0, intent |-> "", planId |-> "", amountInPaise |-> 0,
         razorpay_order_id |-> "", razorpay_payment_id |-> "",
         razorpay_signature |-> <<>>]
NoResp == [status |-> "", source |-> "", debitedPaise |-> 0, requiredPaise |-> 0,
           error |-> "", message |-> "", value |-> None]

\* kind   : the handler or store function the request runs ("none": not arrived)
\* pc     : the await the request is suspended at ("done": it has answered)
\* in     : the request body / the arguments of the store call
\* waited : TRUE iff it arrived while an earlier operation was unsettled
\* op     : the store operation it has handed to withLock and awaits
\* phase  : of that operation: "queued", "running" (read done, write under way)
\* doc    : the document that operation is writing
\* resp   : the response sent / the settled result of the store call
IdleReq ==
  [kind |-> "none", pc |-> "idle", userId |-> "", in |-> NoIn, waited |-> FALSE,
   op |-> NoOp, phase |-> "none", doc |-> NoDoc, resp |-> NoResp]

\* await <store call>: the operation is handed to withLock and the handler suspends
Await(rq, pc, op) ==
  [rq EXCEPT !.pc = pc, !.op = op, !.phase = "queued", !.doc = NoDoc]

\* the handler answers (or the awaited store call settles for its caller) and ends
Respond(rq, resp) ==
  [rq EXCEPT !.pc = "done", !.op = NoOp, !.phase = "none", !.doc = NoDoc,
             !.resp = resp]

Status(code) == [NoResp EXCEPT !.status = code]
Error(code, msg) == [NoResp EXCEPT !.status = code, !.error = msg]

\* the settled result of a locked operation, as its awaiter sees it
Fulfilled(value) == [ok |-> TRUE, value |-> value, err |-> ""]
Rejected(msg) == [ok |-> FALSE, value |-> None, err |-> msg]

\* ------------------------------------------------------------------ withLock
\* withLock(fn): run = chain.then(fn); chain = run.catch(() => undefined).
\* The chain is kept as the sequence of the operations not yet settled.

\* fn() instead of chain.then(fn): fn runs as soon as it is handed over
runsAtOnce(r) == \E i \in 1..Len(chain) : chain[i] = r

\* the newest operation first
runsNewest(r) == chain # <<>> /\ chain[Len(chain)] = r

\* const run = chain.then(fn): fn runs once every link before it has settled
runsNext(r) == chain # <<>> /\ Head(chain) = r

\* chain = run: the link that follows run settles as run does
chainLinkNoCatch(ok) == ok

\* chain = run.catch(() => undefined): the link that follows run is fulfilled
\* whether run was fulfilled or rejected
chainLink(ok) == TRUE

withLock(ch, r) == Append(ch, r)

\* ------------------------------------------- the handlers' continuations
\* POST /usage/consume, resumed with the result res of the store call it awaited
usageConsume(rq, res, t) ==
  LET usageMinutes == rq.in.minutes
      costPaise == Ceil(usageMinutes) * WALLET_COST_PER_MINUTE_PAISE
  IN
  CASE rq.pc = "loadUser" ->
         IF ~res.ok THEN Respond(rq, Error("unhandled", res.err))
         ELSE IF res.value = None THEN Respond(rq, Error("404", "User not found"))
         ELSE LET user == res.value[1] IN
           IF user.activePlan # None /\ user.activePlan[1].remainingMinutes >= usageMinutes
             THEN Await(rq, "plan",
                        Op("activatePlan", rq.userId,
                           [user.activePlan[1] EXCEPT
                              !.remainingMinutes = @ - usageMinutes]))
           ELSE IF /\ user.trial # None
                   /\ user.trial[1].active
                   /\ user.trial[1].expiresAt > t
                   /\ user.trial[1].consumedMinutes + usageMinutes <= user.trial[1].maxMinutes
             THEN Await(rq, "trial",
                        Op("consumeTrialMinutes", rq.userId, usageMinutes))
           ELSE IF user.walletBalancePaise >= costPaise
             THEN Await(rq, "wallet",
                        Op("adjustWallet", rq.userId, -costPaise))
           ELSE Respond(rq, [Error("402", "Insufficient balance") EXCEPT
                               !.requiredPaise = costPaise])
    [] rq.pc \in {"plan", "trial", "wallet"} ->
         IF ~res.ok THEN Respond(rq, Error("400", res.err))
         ELSE Await([rq EXCEPT !.resp.source = rq.pc], "updated",
                    Op("loadUser", rq.userId, 0))
    [] rq.pc = "updated" ->
         IF ~res.ok THEN Respond(rq, Error("400", res.err))
         ELSE Respond(rq, [Status("200") EXCEPT
                             !.source = rq.resp.source,
                             !.debitedPaise = IF rq.resp.source = "wallet"
                                                THEN costPaise ELSE 0])

\* POST /subscription/confirm, resumed with the result of the store call it awaited
subscriptionConfirm(rq, res, t) ==
  CASE rq.pc \in {"activatePlan", "adjustWallet"} ->
         IF ~res.ok THEN Respond(rq, Error("500", "Failed to confirm payment"))
         ELSE Await(rq, "recordPayment",
                Op("recordPayment", rq.userId,
                   IF rq.in.intent = "plan"
                     THEN [type |-> "plan",
                           amountInPaise |-> PLANS[rq.in.planId].priceInPaise,
                           planId |-> rq.in.planId,
                           razorpayOrderId |-> rq.in.razorpay_order_id,
                           razorpayPaymentId |-> rq.in.razorpay_payment_id]
                     ELSE [type |-> "wallet",
                           amountInPaise |-> rq.in.amountInPaise,
                           planId |-> "",
                           razorpayOrderId |-> rq.in.razorpay_order_id,
                           razorpayPaymentId |-> rq.in.razorpay_payment_id]))
    [] rq.pc = "recordPayment" ->
         IF ~res.ok THEN Respond(rq, Error("500", "Failed to confirm payment"))
         ELSE Await(rq, "loadUser", Op("loadUser", rq.userId, 0))
    [] rq.pc = "loadUser" ->
         IF ~res.ok THEN Respond(rq, Error("500", "Failed to confirm payment"))
         ELSE Respond(rq, Status("200"))

\* POST /subscription/start-trial, resumed with the result of the store call it
\* awaited; the handler has no try/catch: a rejected store call is left unhandled
subscriptionStartTrial(rq, res, t) ==
  CASE rq.pc = "loadUser" ->
         IF ~res.ok THEN Respond(rq, Error("unhandled", res.err))
         ELSE IF res.value = None THEN Respond(rq, Error("404", "User not found"))
         ELSE LET user == res.value[1] IN
           IF user.trial # None
             THEN IF user.trial[1].active /\ user.trial[1].expiresAt > t
                    THEN Respond(rq, [Status("200") EXCEPT
                                        !.message = "Trial already active"])
                    ELSE Respond(rq, Error("403", "Trial already used"))
           ELSE LET now == t IN
                Await(rq, "setTrialInfo",
                      Op("setTrialInfo", rq.userId,
                         [startedAt |-> now,
                          expiresAt |-> now + TRIAL_DURATION_MS,
                          consumedMinutes |-> 0,
                          active |-> TRUE,
                          maxMinutes |-> TRIAL_MINUTES * MinuteUnits]))
    [] rq.pc = "setTrialInfo" ->
         IF ~res.ok THEN Respond(rq, Error("unhandled", res.err))
         ELSE Respond(rq, Status("200"))

StoreFns == {"loadUser", "getOrCreateUser", "recordPayment", "activatePlan",
             "setTrialInfo", "adjustWallet", "clearTrial",
             "ensureActivePlanMinutes", "consumeTrialMinutes"}

\* a direct call of a store function: its promise settles for the caller
storeCall(rq, res) ==
  Respond(rq, IF res.ok THEN [Status("resolved") EXCEPT !.value = res.value]
                        ELSE Error("rejected", res.err))

Continue(rq, res, t) ==
  CASE rq.kind = "usageConsume"        -> usageConsume(rq, res, t)
    [] rq.kind = "subscriptionConfirm" -> subscriptionConfirm(rq, res, t)
    [] rq.kind = "subscriptionStartTrial" -> subscriptionStartTrial(rq, res, t)
    [] rq.kind \in StoreFns            -> storeCall(rq, res)

\* ------------------------------------------------------------- the client
\* The App component: its React state, the ref isCancelledRef, and the runs of
\* handleGenerate.  A generated subtitle text is named by the run that asked
\* for it; srtContent 0 is the empty text.
GenerateRuns == 1..MaxRuns

\* pc      : the await the run is suspended at ("idle": not started)
\* history : the history state captured by the callback the run executes
\* usage   : the outcome of its /usage/consume ("": not returned yet)
\* cancelled : TRUE iff handleCancel ran while the run was in flight (never
\*           read by the program)
IdleRun == [pc |-> "idle", history |-> <<>>, usage |-> "", cancelled |-> FALSE]

App0 ==
  [isCancelledRef |-> FALSE, isLoading |-> FALSE, error |-> "", srtContent |-> 0,
   usageSummary |-> "", history |-> <<>>, localStorage |-> <<>>,
   requests |-> <<>>,      \* the requests sent to the server, oldest first
   calls |-> <<>>,         \* the runs that have called generateSrt, oldest first
   run |-> [k \in GenerateRuns |-> IdleRun]]

\* handleGenerate without a signed-in user
handleGenerateSignedOut(a) == [a EXCEPT !.error = "Please sign in to continue."]

\* handleGenerate up to await apiFetch('/usage/consume')
handleGenerate(a, k) ==
  [a EXCEPT !.isCancelledRef = FALSE, !.isLoading = TRUE, !.error = "",
            !.srtContent = 0, !.usageSummary = "",
            !.requests = Append(@, <<k, "/usage/consume">>),
            !.run[k] = [IdleRun EXCEPT !.pc = "consume", !.history = a.history]]

\* the run goes on to generateSrt whatever /usage/consume answered
consumeIgnored(a, k, usage) ==
  [a EXCEPT !.usageSummary = usage.source,
            !.calls = Append(@, k),
            !.run[k].pc = "generate",
            !.run[k].usage = IF usage.ok THEN usage.source ELSE usage.error]

\* handleGenerate resumed with the outcome of /usage/consume, up to await
\* generateSrt
consumeReturned(a, k, usage) ==
  IF usage.ok
    THEN [a EXCEPT !.usageSummary = usage.source,
                   !.calls = Append(@, k),
                   !.run[k].pc = "generate",
                   !.run[k].usage = usage.source]
    ELSE [a EXCEPT !.error = usage.error,
                   !.isLoading = FALSE,
                   !.run[k].pc = "done",
                   !.run[k].usage = usage.error]

\* handleGenerate resumed with the outcome of generateSrt
generateReturned(a, k, ok) ==
  LET updatedHistory ==
        SubSeq(<<k>> \o a.run[k].history, 1,
               Min(Len(a.run[k].history) + 1, SRT_HISTORY_CAP))
      applied ==
        IF ok
          THEN IF ~a.isCancelledRef
                 THEN [a EXCEPT !.srtContent = k, !.history = updatedHistory,
                                !.localStorage = updatedHistory]
                 ELSE a
          ELSE IF ~a.isCancelledRef
                 THEN [a EXCEPT !.error = "Failed to generate subtitles."]
                 ELSE a
  IN [applied EXCEPT !.isLoading = FALSE, !.run[k].pc = "done"]

handleCancel(a) ==
  [a EXCEPT !.isCancelledRef = TRUE, !.isLoading = FALSE,
            !.error = "Generation cancelled by user.",
            !.run = [k \in GenerateRuns |->
                       IF a.run[k].pc \in {"consume", "generate"}
                         THEN [a.run[k] EXCEPT !.cancelled = TRUE] ELSE a.run[k]]]

\* ------------------------------------------------------------ initial states
\* The ledger starts from a document the program has written before: accounts
\* with a plan partly used, a trial close to its cap and to its expiry, a wallet
\* that pays for one or for several requests.
Payment0(type, amount, planId) ==
  [type |-> type, amountInPaise |-> amount, planId |-> planId,
   razorpayOrderId |-> "order_0", razorpayPaymentId |-> "pay_0",
   createdAt |-> 0 - TicksPerDay]

Plan0(remaining) ==
  [planId |-> "editor-basic", activatedAt |-> 0 - TicksPerDay,
   expiresAt |-> 0 - TicksPerDay + PLAN_DURATION_MS, remainingMinutes |-> remaining]

Trial0(consumed, active) ==
  [startedAt |-> 1 - TRIAL_DURATION_MS, expiresAt |-> 1,
   consumedMinutes |-> consumed, active |-> active,
   maxMinutes |-> TRIAL_MINUTES * MinuteUnits]

Account0(wallet, trial, plan) ==
  [freshUser(0 - PLAN_DURATION_MS, NoProfile) EXCEPT
     !.walletBalancePaise = wallet, !.trial = trial, !.activePlan = plan,
     !.paymentHistory =
        (IF wallet > 0 THEN <<Payment0("wallet", 10000, "")>> ELSE <<>>)
        \o (IF plan # None THEN <<Payment0("plan", 29900, "editor-basic")>> ELSE <<>>),
     !.updatedAt = 0]

InitRest ==
  /\ users0 = users
  /\ clock = 0
  /\ chain = <<>>
  /\ chainOk = TRUE
  /\ req = [r \in Reqs |-> IdleReq]
  /\ app = App0

\* ------------------------------------------------------------------ actions
\* the next request slot: requests are numbered in their order of arrival
Arrives(r) == req[r].kind = "none" /\ \A q \in 1..(r - 1) : req[q].kind # "none"

Start(r, kind, userId, in, pc, op) ==
  /\ req' = [req EXCEPT ![r] =
               Await([IdleReq EXCEPT !.kind = kind, !.userId = userId, !.in = in,
                                     !.waited = (chain # <<>>)], pc, op)]
  /\ chain' = withLock(chain, r)
  /\ UNCHANGED <<users, users0, clock, chainOk, app>>

Reject(r, kind, userId, in, resp) ==
  /\ req' = [req EXCEPT ![r] =
               Respond([IdleReq EXCEPT !.kind = kind, !.userId = userId, !.in = in], resp)]
  /\ UNCHANGED <<users, users0, clock, chain, chainOk, app>>

\* the awaited operation of r settles with res: the chain moves on and the
\* awaiting code runs to its next await
Settle(r, res) ==
  LET rq == Continue(req[r], res, clock)
      rest == SelectSeq(chain, LAMBDA q : q # r)
  IN /\ req' = [req EXCEPT ![r] = rq]
     /\ chain' = IF rq.phase = "queued" THEN withLock(rest, r) ELSE rest
     /\ chainOk' = chainLink(res.ok)

UpdateFns == StoreFns \ {"loadUser", "getOrCreateUser"}

\* loadUser: withLock(readAllUsers) reads the document and settles
LoadUser(r) ==
  /\ req[r].phase = "queued"
  /\ req[r].op.fn = "loadUser"
  /\ runsNext(r)
  /\ Settle(r, IF chainOk THEN Fulfilled(users[req[r].op.userId])
                          ELSE Rejected("chain rejected"))
  /\ UNCHANGED <<users, users0, clock, app>>

\* getOrCreateUser, up to writeAllUsers: the document is read; an existing
\* account asked for without a profile is returned as it is, otherwise the
\* merged or fresh account is being written
GetOrCreateUserRead(r) ==
  /\ req[r].phase = "queued"
  /\ req[r].op.fn = "getOrCreateUser"
  /\ runsNext(r)
  /\ LET g == getOrCreateUser(users, req[r].op.userId, req[r].op.arg, clock)
     IN IF ~chainOk THEN Settle(r, Rejected("chain rejected"))
        ELSE IF ~g.write THEN Settle(r, Fulfilled(g.value))
        ELSE /\ req' = [req EXCEPT ![r].phase = "running", ![r].doc = g.doc]
             /\ UNCHANGED <<chain, chainOk, app>>
  /\ UNCHANGED <<users, users0, clock, app>>

\* updateUser, first part: the document is read, the mutator runs on the account
\* read; it throws, and the operation settles rejected, or writeAllUsers is called
UpdateUserRead(r) ==
  /\ req[r].phase = "queued"
  /\ req[r].op.fn \in UpdateFns
  /\ runsNext(r)
  /\ LET u == updateUser(users, req[r].op, clock)
     IN IF ~chainOk THEN Settle(r, Rejected("chain rejected"))
        ELSE IF ~u.ok THEN Settle(r, Rejected(u.err))
        ELSE /\ req' = [req EXCEPT ![r].phase = "running", ![r].doc = u.doc]
             /\ UNCHANGED <<chain, chainOk, app>>
  /\ UNCHANGED <<users, users0, clock, app>>

\* updateUser, second part: the write of the document completes, the operation
\* settles with the account written
UpdateUserWrite(r) ==
  /\ req[r].phase = "running"
  /\ users' = req[r].doc
  /\ Settle(r, Fulfilled(req[r].doc[req[r].op.userId]))
  /\ UNCHANGED <<users0, clock, app>>

Tick ==
  /\ clock < MaxClock
  /\ clock' = clock + 1
  /\ UNCHANGED <<users, users0, chain, chainOk, req, app>>

\* ----- direct calls of the store functions
CallMinutes == {2 * MinuteUnits}
CallDeltas == {500, -200}

CallAdjustWallet(r, userId, deltaPaise) ==
  /\ Arrives(r)
  /\ Start(r, "adjustWallet", userId, [NoIn EXCEPT !.amountInPaise = deltaPaise],
           "await", Op("adjustWallet", userId, deltaPaise))

CallConsumeTrialMinutes(r, userId, minutes) ==
  /\ Arrives(r)
  /\ Start(r, "consumeTrialMinutes", userId, [NoIn EXCEPT !.minutes = minutes],
           "await", Op("consumeTrialMinutes", userId, minutes))

CallLoadUser(r, userId) ==
  /\ Arrives(r)
  /\ Start(r, "loadUser", userId, NoIn, "await", Op("loadUser", userId, 0))

LockStep == \E r \in Reqs : LoadUser(r) \/ UpdateUserRead(r) \/ UpdateUserWrite(r)

InitStore ==
  /\ users \in { [a \in Accounts |-> IF a = "u1" THEN Some(acc) ELSE other] :
                 acc \in { Account0(1000, Some(Trial0((TRIAL_MINUTES - 2) * MinuteUnits, TRUE)), None),
                           Account0(100, None, None) },
                 other \in { None, Some(Account0(100, None, None)) } }
  /\ InitRest

NextStore ==
  \/ \E r \in Reqs, u \in Accounts, d \in CallDeltas : CallAdjustWallet(r, u, d)
  \/ \E r \in Reqs, u \in Accounts, m \in CallMinutes : CallConsumeTrialMinutes(r, u, m)
  \/ \E r \in Reqs, u \in Accounts : CallLoadUser(r, u)
  \/ \E r \in Reqs : LoadUser(r)
  \/ \E r \in Reqs : UpdateUserRead(r)
  \/ \E r \in Reqs : UpdateUserWrite(r)
  \/ Tick

SpecStore == InitStore /\ [][NextStore]_vars

\* ----- the accounts: getOrCreateUser and wallet updates on two accounts
Profile(email, name, picture) == [email |-> email, name |-> name, picture |-> picture]

\* the profile argument: omitted, without any value, with values
CallProfiles ==
  { None,
    Some(NoProfile),
    Some(Profile(Some("a@x"), Some("A"), None)),
    Some(Profile(Some("b@x"), None, Some("b.png"))) }

CallGetOrCreateUser(r, userId, profile) ==
  /\ Arrives(r)
  /\ Start(r, "getOrCreateUser", userId, NoIn, "await",
           Op("getOrCreateUser", userId, profile))

InitAccounts ==
  /\ users \in { [a \in Accounts |-> IF a = "u1" THEN one ELSE other] :
                 one \in { None,
                           Some([Account0(1000, Some(Trial0(0, TRUE)), Some(Plan0(MinuteUnits)))
                                   EXCEPT !.email = Some("a@x"), !.name = Some("A"),
                                          !.picture = Some("a.png")]) },
                 other \in { None, Some(Account0(100, None, None)) } }
  /\ InitRest

NextAccounts ==
  \/ \E r \in Reqs, u \in Accounts, p \in CallProfiles : CallGetOrCreateUser(r, u, p)
  \/ \E r \in Reqs, u \in Accounts, d \in CallDeltas : CallAdjustWallet(r, u, d)
  \/ \E r \in Reqs : GetOrCreateUserRead(r)
  \/ \E r \in Reqs : UpdateUserRead(r)
  \/ \E r \in Reqs : UpdateUserWrite(r)
  \/ Tick

SpecAccounts == InitAccounts /\ [][NextAccounts]_vars

\* ----- the HTTP requests
RAZORPAY_KEY_SECRET == "s3cret"

\* crypto.createHmac('sha256', key).update(msg).digest('hex'): a keyed digest,
\* taken to be free of collisions
createHmac(key, msg) == <<"sha256", key, msg>>

\* no check of the signature at all
signatureAccepted(expected, given) == FALSE

\* expectedSignature !== razorpay_signature
signatureMismatch(expected, given) == expected # given

SessionUsers == {"u1"}
ConsumeMinutes == {0, MinuteUnits + 1, 2 * MinuteUnits}

ConfirmBody(intent, planId, amountInPaise, signed) ==
  [NoIn EXCEPT !.intent = intent, !.planId = planId, !.amountInPaise = amountInPaise,
               !.razorpay_order_id = "order_1", !.razorpay_payment_id = "pay_1",
               !.razorpay_signature =
                  IF signed THEN createHmac(RAZORPAY_KEY_SECRET, <<"order_1", "|", "pay_1">>)
                            ELSE <<"forged">>]

ConfirmBodies ==
  { ConfirmBody("plan", "creator-pro", 0, TRUE),
    ConfirmBody("wallet", "", 500, TRUE),
    ConfirmBody("wallet", "", -300, TRUE),
    ConfirmBody("wallet", "", 500, FALSE),
    [ConfirmBody("plan", "editor-max", 0, FALSE) EXCEPT
       !.razorpay_signature = createHmac("guess", <<"order_1", "|", "pay_1">>)],
    [ConfirmBody("gift", "", 0, FALSE) EXCEPT
       !.razorpay_signature = createHmac(RAZORPAY_KEY_SECRET, <<"order_0", "|", "pay_1">>)] }

\* POST /usage/consume, up to await loadUser
PostUsageConsume(r, userId, minutes) ==
  /\ Arrives(r)
  /\ LET body == [NoIn EXCEPT !.minutes = minutes]
     IN IF minutes <= 0
          THEN Reject(r, "usageConsume", userId, body, Error("400", "Invalid minutes value"))
          ELSE Start(r, "usageConsume", userId, body, "loadUser", Op("loadUser", userId, 0))

\* POST /subscription/confirm, up to its first await
PostSubscriptionConfirm(r, userId, body) ==
  /\ Arrives(r)
  /\ LET expectedSignature ==
           createHmac(RAZORPAY_KEY_SECRET,
                      <<body.razorpay_order_id, "|", body.razorpay_payment_id>>)
         now == clock
     IN IF \/ body.razorpay_order_id = ""
           \/ body.razorpay_payment_id = ""
           \/ body.razorpay_signature = <<>>
          THEN Reject(r, "subscriptionConfirm", userId, body,
                      Error("400", "Missing Razorpay confirmation data"))
        ELSE IF signatureMismatch(expectedSignature, body.razorpay_signature)
          THEN Reject(r, "subscriptionConfirm", userId, body,
                      Error("400", "Invalid signature"))
        ELSE IF body.intent = "plan"
          THEN IF body.planId \notin PlanIds
                 THEN Reject(r, "subscriptionConfirm", userId, body,
                             Error("400", "Invalid plan"))
                 ELSE Start(r, "subscriptionConfirm", userId, body, "activatePlan",
                            Op("activatePlan", userId,
                               [planId |-> body.planId,
                                activatedAt |-> now,
                                expiresAt |-> now + PLAN_DURATION_MS,
                                remainingMinutes |-> PLANS[body.planId].minutesIncluded]))
        ELSE IF body.intent = "wallet"
          THEN IF body.amountInPaise = 0
                 THEN Reject(r, "subscriptionConfirm", userId, body,
                             Error("400", "Missing top-up amount"))
                 ELSE Start(r, "subscriptionConfirm", userId, body, "adjustWallet",
                            Op("adjustWallet", userId, body.amountInPaise))
        ELSE Reject(r, "subscriptionConfirm", userId, body, Error("400", "Invalid intent"))

\* POST /subscription/start-trial, up to await loadUser
PostSubscriptionStartTrial(r, userId) ==
  /\ Arrives(r)
  /\ Start(r, "subscriptionStartTrial", userId, NoIn, "loadUser",
           Op("loadUser", userId, 0))

Init ==
  /\ users \in { [a \in Accounts |-> IF a \in SessionUsers THEN Some(acc) ELSE None] :
                 acc \in { Account0(0, None, Some(Plan0(3 * MinuteUnits + 1))),
                           Account0(200, Some(Trial0((TRIAL_MINUTES - 2) * MinuteUnits, TRUE)), None) } }
  /\ InitRest

Next ==
  \/ \E r \in Reqs, u \in SessionUsers, m \in ConsumeMinutes : PostUsageConsume(r, u, m)
  \/ \E r \in Reqs, u \in SessionUsers, b \in ConfirmBodies : PostSubscriptionConfirm(r, u, b)
  \/ \E r \in Reqs, u \in SessionUsers : PostSubscriptionStartTrial(r, u)
  \/ \E r \in Reqs : LoadUser(r)
  \/ \E r \in Reqs : UpdateUserRead(r)
  \/ \E r \in Reqs : UpdateUserWrite(r)
  \/ Tick

Spec == Init /\ [][Next]_vars

\* ----- the server on accounts with a plan, current or expired, next to direct
\* calls of ensureActivePlanMinutes
ExpiredPlan0(remaining) ==
  [Plan0(remaining) EXCEPT !.activatedAt = 0 - TicksPerDay - PLAN_DURATION_MS,
                           !.expiresAt = 0 - TicksPerDay]

CallEnsureActivePlanMinutes(r, userId, minutes) ==
  /\ Arrives(r)
  /\ Start(r, "ensureActivePlanMinutes", userId, [NoIn EXCEPT !.minutes = minutes],
           "await", Op("ensureActivePlanMinutes", userId, minutes))

InitPlan ==
  /\ users \in { [a \in Accounts |-> IF a \in SessionUsers THEN Some(acc) ELSE None] :
                 acc \in { Account0(200, None, Some(Plan0(3 * MinuteUnits + 1))),
                           Account0(200, None, Some(ExpiredPlan0(3 * MinuteUnits + 1))) } }
  /\ InitRest

NextPlan ==
  \/ \E r \in Reqs, u \in SessionUsers, m \in ConsumeMinutes : PostUsageConsume(r, u, m)
  \/ \E r \in Reqs, u \in SessionUsers, b \in ConfirmBodies : PostSubscriptionConfirm(r, u, b)
  \/ \E r \in Reqs, u \in SessionUsers, m \in CallMinutes :
       CallEnsureActivePlanMinutes(r, u, m)
  \/ \E r \in Reqs : LoadUser(r)
  \/ \E r \in Reqs : UpdateUserRead(r)
  \/ \E r \in Reqs : UpdateUserWrite(r)
  \/ Tick

SpecPlan == InitPlan /\ [][NextPlan]_vars

\* ----- the client; the server's answers and the outcome of generateSrt are
\* inputs
UsageOutcomes ==
  { [ok |-> TRUE, source |-> "plan", error |-> ""],
    [ok |-> TRUE, source |-> "wallet", error |-> ""],
    [ok |-> FALSE, source |-> "", error |-> "Insufficient balance"] }

\* a click on Generate: the button is disabled while isLoading
ClickGenerate(k, signedIn) ==
  /\ ~app.isLoading
  /\ app.run[k].pc = "idle"
  /\ \A j \in 1..(k - 1) : app.run[j].pc # "idle"
  /\ app' = IF signedIn THEN handleGenerate(app, k) ELSE handleGenerateSignedOut(app)
  /\ UNCHANGED <<users, users0, clock, chain, chainOk, req>>

ConsumeReturns(k, usage) ==
  /\ app.run[k].pc = "consume"
  /\ app' = consumeReturned(app, k, usage)
  /\ UNCHANGED <<users, users0, clock, chain, chainOk, req>>

GenerateReturns(k, ok) ==
  /\ app.run[k].pc = "generate"
  /\ app' = generateReturned(app, k, ok)
  /\ UNCHANGED <<users, users0, clock, chain, chainOk, req>>

\* a click on Cancel: the button is shown while isLoading
ClickCancel ==
  /\ app.isLoading
  /\ app' = handleCancel(app)
  /\ UNCHANGED <<users, users0, clock, chain, chainOk, req>>

InitClient ==
  /\ users = [a \in Accounts |-> IF a \in SessionUsers
                                   THEN Some(Account0(200, None, None)) ELSE None]
  /\ InitRest

NextClient ==
  \/ \E k \in GenerateRuns, signedIn \in BOOLEAN : ClickGenerate(k, signedIn)
  \/ \E k \in GenerateRuns, usage \in UsageOutcomes : ConsumeReturns(k, usage)
  \/ \E k \in GenerateRuns, ok \in BOOLEAN : GenerateReturns(k, ok)
  \/ ClickCancel

SpecClient == InitClient /\ [][NextClient]_vars

\* ----- the same server, one request at a time: a request arrives only when
\* every earlier request has been answered
Quiet == \A q \in Reqs : req[q].pc \in {"idle", "done"}

InitSeq ==
  /\ users \in { [a \in Accounts |-> IF a \in SessionUsers THEN Some(acc) ELSE None] :
                 acc \in { Account0(w, t, p) :
                            w \in {50, 200},
                            t \in {None,
                                   Some(Trial0((TRIAL_MINUTES - 1) * MinuteUnits, TRUE)),
                                   Some(Trial0((TRIAL_MINUTES - 2) * MinuteUnits, TRUE)),
                                   Some(Trial0((TRIAL_MINUTES - 2) * MinuteUnits, FALSE))},
                            p \in {None, Some(Plan0(0)), Some(Plan0(3 * MinuteUnits + 1))} } }
  /\ InitRest

NextSeq ==
  \/ \E r \in Reqs, u \in SessionUsers, m \in ConsumeMinutes :
       Quiet /\ PostUsageConsume(r, u, m)
  \/ \E r \in Reqs, u \in SessionUsers, b \in ConfirmBodies :
       Quiet /\ PostSubscriptionConfirm(r, u, b)
  \/ \E r \in Reqs, u \in SessionUsers :
       Quiet /\ PostSubscriptionStartTrial(r, u)
  \/ \E r \in Reqs : LoadUser(r)
  \/ \E r \in Reqs : UpdateUserRead(r)
  \/ \E r \in Reqs : UpdateUserWrite(r)
  \/ Tick

SpecSeq == InitSeq /\ [][NextSeq]_vars

FairSpecStore == SpecStore /\ WF_vars(LockStep)

\* ----- recordPayment on payment histories below, just below and at the cap
History0(n) ==
  [i \in 1..n |-> [Payment0("wallet", 10000 + i, "") EXCEPT !.createdAt = 0 - i]]

PaymentData ==
  { [type |-> "wallet", amountInPaise |-> 500, planId |-> "",
     razorpayOrderId |-> "order_1", razorpayPaymentId |-> "pay_1"],
    [type |-> "plan", amountInPaise |-> PLANS["creator-pro"].priceInPaise,
     planId |-> "creator-pro",
     razorpayOrderId |-> "order_2", razorpayPaymentId |-> "pay_2"] }

CallRecordPayment(r, userId, data) ==
  /\ Arrives(r)
  /\ Start(r, "recordPayment", userId,
           [NoIn EXCEPT !.intent = data.type, !.planId = data.planId,
                        !.amountInPaise = data.amountInPaise,
                        !.razorpay_order_id = data.razorpayOrderId,
                        !.razorpay_payment_id = data.razorpayPaymentId],
           "await", Op("recordPayment", userId, data))

InitHistory ==
  /\ users \in { [a \in Accounts |->
                    IF a = "u1"
                      THEN Some([Account0(100, None, None) EXCEPT
                                   !.paymentHistory = History0(n)])
                      ELSE None] :
                 n \in {0, HISTORY_CAP - 1, HISTORY_CAP} }
  /\ InitRest

NextHistory ==
  \/ \E r \in Reqs, u \in Accounts, d \in PaymentData : CallRecordPayment(r, u, d)
  \/ \E r \in Reqs : UpdateUserRead(r)
  \/ \E r \in Reqs : UpdateUserWrite(r)
  \/ Tick

SpecHistory == InitHistory /\ [][NextHistory]_vars

\* ------------------------------------------------------------- properties
Stored(a) == users[a][1]
Exists(a) == users[a] # None

\* the operation r awaits runs in this step (its read completes)
Runs(r) == req[r].phase = "queued" /\ req'[r] # req[r]
\* the operation r awaits settles rejected in this step
Fails(r) ==
  /\ req[r].phase \in {"queued", "running"}
  /\ req'[r].pc = "done"
  /\ req'[r].resp.status \in {"400", "500", "rejected", "unhandled"}
\* the operations that have read the document and not yet settled
Executing == {r \in Reqs : req[r].phase = "running"}

\* definitions for C1
WalletNonNegative == \A a \in Accounts : Exists(a) => Stored(a).walletBalancePaise >= 0

OverDebitFails ==
  \A r \in Reqs :
    ( /\ Runs(r)
      /\ req[r].op.fn = "adjustWallet"
      /\ Exists(req[r].op.userId)
      /\ Stored(req[r].op.userId).walletBalancePaise + req[r].op.arg < 0 )
    => Fails(r) /\ users' = users

\* C1: every stored wallet balance is >= 0, and an adjustWallet whose delta would
\* make the balance negative fails and leaves the document as it was.
C1_WalletNeverNegative == []WalletNonNegative /\ [][OverDebitFails]_vars

C1_Witness ==
  \E r \in Reqs : /\ req[r].pc = "done"
                  /\ req[r].resp.error = "Insufficient wallet balance"
                  /\ Stored(req[r].userId).walletBalancePaise < 200

\* definitions for C2
TrialWithinCap ==
  \A a \in Accounts :
    Exists(a) /\ Stored(a).trial # None
      => Stored(a).trial[1].consumedMinutes <= Stored(a).trial[1].maxMinutes

OverCapFails ==
  \A r \in Reqs :
    ( /\ Runs(r)
      /\ req[r].op.fn = "consumeTrialMinutes"
      /\ Exists(req[r].op.userId)
      /\ Stored(req[r].op.userId).trial # None
      /\ Stored(req[r].op.userId).trial[1].consumedMinutes + req[r].op.arg
           > Stored(req[r].op.userId).trial[1].maxMinutes )
    => Fails(r) /\ users' = users

\* C2: every stored trial has consumedMinutes <= maxMinutes, and a
\* consumeTrialMinutes that would exceed the cap fails and leaves the document
\* as it was.
C2_TrialNeverOverCap == []TrialWithinCap /\ [][OverCapFails]_vars

C2_Witness ==
  \E r \in Reqs : /\ req[r].pc = "done"
                  /\ req[r].resp.error = "Trial minutes exceeded"
                  /\ Stored(req[r].userId).trial[1].consumedMinutes
                       > users0[req[r].userId][1].trial[1].consumedMinutes

\* definitions for C3
RECURSIVE SucceededDeltas(_, _)
SucceededDeltas(a, n) ==
  IF n = 0 THEN 0
  ELSE SucceededDeltas(a, n - 1)
       + (IF /\ req[n].kind = "adjustWallet"
             /\ req[n].userId = a
             /\ req[n].resp.status = "resolved"
            THEN req[n].in.amountInPaise ELSE 0)

\* C3: once every adjustWallet call on an account has settled, its stored balance
\* is the initial balance plus the deltas of the calls that succeeded.
C3_NoLostWalletUpdate ==
  \A a \in Accounts :
    ( /\ users0[a] # None
      /\ \A r \in Reqs : req[r].userId = a => req[r].pc = "done" )
    => Stored(a).walletBalancePaise
         = users0[a][1].walletBalancePaise + SucceededDeltas(a, MaxReqs)

C3_Witness ==
  /\ users0["u1"][1].walletBalancePaise = 1000
  /\ \E r, q \in Reqs :
       /\ req[r].kind = "adjustWallet" /\ req[r].userId = "u1"
       /\ req[r].in.amountInPaise = 500 /\ req[r].resp.status = "resolved"
       /\ req[q].kind = "adjustWallet" /\ req[q].userId = "u1"
       /\ req[q].in.amountInPaise = -200 /\ req[q].resp.status = "resolved"
       /\ (req[r].waited \/ req[q].waited)
  /\ \A r \in Reqs : req[r].pc = "done"
  /\ Stored("u1").walletBalancePaise = 1300

\* definitions for C4
ExclusiveAccess ==
  /\ \A r \in Reqs :
       (req[r].phase \in {"queued", "running"} /\ req'[r] # req[r])
         => Executing \subseteq {r}
  /\ users' # users => \E r \in Reqs : Executing = {r} /\ req'[r].phase # "running"

\* C4: at most one operation handed to withLock is executing, and the document
\* is read or written only by an operation while no other operation is executing.
C4_MutualExclusion == [](Cardinality(Executing) <= 1) /\ [][ExclusiveAccess]_vars

C4_Witness ==
  \E r, q \in Reqs :
    /\ req[r].phase = "running"
    /\ req[q].phase = "queued" /\ req[q].op.fn = "loadUser"
    /\ req[q].userId = req[r].userId

\* definitions for C5
StartsInOrder ==
  \A r \in Reqs : Runs(r) => \A q \in 1..(r - 1) : req[q].pc = "done"

\* C5: operations start in the order of the calls of withLock: when the
\* operation of a call starts, the operation of every earlier call has settled.
C5_Fifo == [][StartsInOrder]_vars

C5_Witness ==
  \E r, q \in Reqs :
    /\ q < r
    /\ req[r].waited /\ req[r].phase = "running"
    /\ req[q].pc = "done" /\ req[q].userId # req[r].userId

\* definitions for C6
OwnOutcome ==
  \A r \in Reqs :
    Runs(r) =>
      /\ Fails(r) <=> ( /\ req[r].op.fn \in UpdateFns
                        /\ ~updateUser(users, req[r].op, clock).ok )
      /\ \A q \in Reqs \ {r} : req'[q] = req[q]

\* C6: an operation that fails does not poison the chain: an operation is
\* rejected exactly when its own run throws, a step that settles one call leaves
\* every other call as it was, and the chain drains again and again: every
\* operation handed over starts and settles.
C6_FailureIsolated ==
  /\ [][OwnOutcome]_vars
  /\ []<>(chain = <<>>)

C6_Witness ==
  \E r, q \in Reqs :
    /\ q < r
    /\ req[q].resp.status = "rejected"
    /\ req[r].waited
    /\ req[r].resp.status = "resolved"
    /\ req[r].kind # "loadUser"

\* definitions for C7

\* C7: two concurrent /usage/consume requests of one account, both funded by the
\* plan, with R >= m1 + m2 minutes remaining: once both are answered the stored
\* remainingMinutes is R - m1 - m2.
C7_NoLostPlanDebit ==
  \A r, q \in Reqs :
    ( /\ r # q
      /\ \A x \in Reqs \ {r, q} : req[x].kind = "none"
      /\ req[r].kind = "usageConsume" /\ req[q].kind = "usageConsume"
      /\ req[r].userId = req[q].userId
      /\ req[r].pc = "done" /\ req[r].resp.source = "plan"
      /\ req[q].pc = "done" /\ req[q].resp.source = "plan"
      /\ users0[req[r].userId][1].activePlan[1].remainingMinutes
           >= req[r].in.minutes + req[q].in.minutes )
    => Stored(req[r].userId).activePlan[1].remainingMinutes
         = users0[req[r].userId][1].activePlan[1].remainingMinutes
             - req[r].in.minutes - req[q].in.minutes

\* definitions for C8

\* C8: a plan purchase confirmed by /subscription/confirm and a /usage/consume of
\* the same account: once both are answered the stored plan is the purchased one,
\* with at most the consumed minutes taken from it.
C8_PurchaseNotLost ==
  \A r, q \in Reqs :
    ( /\ \A x \in Reqs \ {r, q} : req[x].kind = "none"
      /\ req[r].kind = "subscriptionConfirm" /\ req[r].in.intent = "plan"
      /\ req[r].pc = "done" /\ req[r].resp.status = "200"
      /\ req[q].kind = "usageConsume" /\ req[q].userId = req[r].userId
      /\ req[q].pc = "done" )
    => LET plan == Stored(req[r].userId).activePlan[1]
           included == PLANS[req[r].in.planId].minutesIncluded
       IN /\ plan.planId = req[r].in.planId
          /\ plan.activatedAt >= 0
          /\ plan.expiresAt = plan.activatedAt + PLAN_DURATION_MS
          /\ plan.remainingMinutes <= included
          /\ plan.remainingMinutes >= included - req[q].in.minutes

\* definitions for C9
FirstMatch(user, requested, now) ==
  IF user.activePlan # None /\ user.activePlan[1].remainingMinutes >= requested
    THEN "plan"
  ELSE IF /\ user.trial # None
          /\ user.trial[1].active
          /\ user.trial[1].expiresAt > now
          /\ user.trial[1].consumedMinutes + requested <= user.trial[1].maxMinutes
    THEN "trial"
  ELSE IF user.walletBalancePaise >= Ceil(requested) * WALLET_COST_PER_MINUTE_PAISE
    THEN "wallet"
  ELSE "402"

\* the handler picks the first match of the stored account ...
PicksFirstMatch ==
  \A r \in Reqs :
    ( /\ req[r].kind = "usageConsume" /\ req[r].pc = "loadUser"
      /\ req'[r] # req[r] /\ Exists(req[r].userId) )
    => LET first == FirstMatch(Stored(req[r].userId), req[r].in.minutes, clock)
       IN IF first = "402"
            THEN req'[r].pc = "done" /\ req'[r].resp.status = "402"
            ELSE req'[r].pc = first
\* ... and answers with the source it picked
ReportsPicked ==
  \A r \in Reqs :
    ( /\ req[r].kind = "usageConsume" /\ req[r].pc \in {"plan", "trial", "wallet"}
      /\ req'[r].pc = "done" )
    => req'[r].resp.status = "200" /\ req'[r].resp.source = req[r].pc
KeepsPicked ==
  \A r \in Reqs :
    ( /\ req[r].kind = "usageConsume" /\ req[r].pc \in {"plan", "trial", "wallet"}
      /\ req'[r].pc \notin {"done", req[r].pc} )
    => req'[r].pc = "updated" /\ req'[r].resp.source = req[r].pc
ReportsUpdated ==
  \A r \in Reqs :
    ( /\ req[r].kind = "usageConsume" /\ req[r].pc = "updated" /\ req'[r] # req[r] )
    => /\ req'[r].pc = "done" /\ req'[r].resp.status = "200"
       /\ req'[r].resp.source = req[r].resp.source

\* C9: with no concurrent request, /usage/consume reports the first source that
\* matches in the order plan, trial, wallet, and fails with 402 when none does.
C9_FirstMatchWins ==
  [][PicksFirstMatch /\ ReportsPicked /\ KeepsPicked /\ ReportsUpdated]_vars

\* definitions for C10
ExactDebit ==
  \A r \in Reqs :
    ( /\ req[r].kind = "usageConsume" /\ req[r].phase = "running"
      /\ req'[r].phase # "running" )
    => LET a == req[r].userId
           m == req[r].in.minutes
           before == users[a][1]
           after == users'[a][1]
       IN /\ users[a] # None /\ users'[a] # None
          /\ req[r].pc = "plan" =>
               /\ before.activePlan # None /\ after.activePlan # None
               /\ after.activePlan[1].remainingMinutes
                    = before.activePlan[1].remainingMinutes - m
               /\ after.trial = before.trial
               /\ after.walletBalancePaise = before.walletBalancePaise
          /\ req[r].pc = "trial" =>
               /\ after.trial[1].consumedMinutes = before.trial[1].consumedMinutes + m
               /\ after.activePlan = before.activePlan
               /\ after.walletBalancePaise = before.walletBalancePaise
          /\ req[r].pc = "wallet" =>
               /\ after.walletBalancePaise
                    = before.walletBalancePaise - Ceil(m) * WALLET_COST_PER_MINUTE_PAISE
               /\ after.activePlan = before.activePlan
               /\ after.trial = before.trial

ReportsDebit ==
  \A r \in Reqs :
    (req[r].kind = "usageConsume" /\ req[r].resp.status = "200"
       /\ req[r].resp.source = "wallet")
    => req[r].resp.debitedPaise = Ceil(req[r].in.minutes) * WALLET_COST_PER_MINUTE_PAISE

\* C10: the write of a successful /usage/consume changes the source it reports by
\* the right amount and leaves the other two sources as they were.
C10_ExactDebit == []ReportsDebit /\ [][ExactDebit]_vars

\* definitions for C11
\* paise is ceil(m / MinuteUnits) whole minutes at the wallet rate
IsCeilCost(m, paise) ==
  /\ paise % WALLET_COST_PER_MINUTE_PAISE = 0
  /\ (paise \div WALLET_COST_PER_MINUTE_PAISE) * MinuteUnits >= m
  /\ (paise \div WALLET_COST_PER_MINUTE_PAISE - 1) * MinuteUnits < m

\* neither the plan, nor the trial, nor the wallet covers m at time now
NothingCovers(user, m, now) ==
  /\ user.activePlan = None \/ user.activePlan[1].remainingMinutes < m
  /\ \/ user.trial = None
     \/ ~user.trial[1].active
     \/ user.trial[1].expiresAt <= now
     \/ user.trial[1].consumedMinutes + m > user.trial[1].maxMinutes
  /\ (user.walletBalancePaise \div WALLET_COST_PER_MINUTE_PAISE) * MinuteUnits < m

InsufficientFails ==
  \A r \in Reqs :
    /\ ( /\ req[r].kind = "usageConsume" /\ req[r].pc = "loadUser"
         /\ req'[r] # req[r] /\ Exists(req[r].userId)
         /\ NothingCovers(Stored(req[r].userId), req[r].in.minutes, clock) )
       => /\ req'[r].pc = "done"
          /\ req'[r].resp.status = "402"
          /\ IsCeilCost(req[r].in.minutes, req'[r].resp.requiredPaise)
          /\ users' = users
    /\ ( /\ req[r].kind = "usageConsume"
         /\ req[r].resp.status # "402" /\ req'[r].resp.status = "402" )
       => req[r].pc = "loadUser" /\ users' = users

InsufficientLeavesAccount ==
  ( /\ req[1].kind = "usageConsume" /\ req[1].resp.status = "402"
    /\ \A q \in Reqs \ {1} : req[q].kind = "none" )
  => users = users0

\* C11: a /usage/consume that neither plan, trial nor wallet covers fails with
\* 402 carrying ceil(requested) * rate, and the stored document is the same
\* before and after the request.
C11_InsufficientBalance == []InsufficientLeavesAccount /\ [][InsufficientFails]_vars

C11_Witness ==
  /\ users0["u1"][1].walletBalancePaise = 50
  /\ users0["u1"][1].activePlan # None
  /\ users0["u1"][1].activePlan[1].remainingMinutes = 0
  /\ users0["u1"][1].trial # None
  /\ users0["u1"][1].trial[1].active
  /\ users0["u1"][1].trial[1].consumedMinutes = (TRIAL_MINUTES - 1) * MinuteUnits
  /\ clock < users0["u1"][1].trial[1].expiresAt
  /\ req[1].kind = "usageConsume" /\ req[1].userId = "u1"
  /\ req[1].in.minutes = 2 * MinuteUnits
  /\ req[1].pc = "done" /\ req[1].resp.status = "402"
  /\ req[1].resp.requiredPaise = 200
  /\ users = users0

\* definitions for C12

\* C12: every /usage/consume with a valid minutes value on an existing account
\* ends in success reporting plan, trial or wallet, or in 402 carrying the
\* required amount, whatever other requests of the account it interleaves with.
C12_SuccessOrInsufficient ==
  \A r \in Reqs :
    ( /\ req[r].kind = "usageConsume" /\ req[r].pc = "done"
      /\ req[r].in.minutes > 0
      /\ users0[req[r].userId] # None )
    => \/ /\ req[r].resp.status = "200"
          /\ req[r].resp.source \in {"plan", "trial", "wallet"}
       \/ /\ req[r].resp.status = "402"
          /\ IsCeilCost(req[r].in.minutes, req[r].resp.requiredPaise)

\* definitions for C13
AlreadyGranted ==
  \A r \in Reqs :
    ( /\ req[r].kind = "subscriptionStartTrial" /\ req[r].pc = "loadUser"
      /\ req'[r] # req[r]
      /\ Exists(req[r].userId) /\ Stored(req[r].userId).trial # None )
    => /\ req'[r].pc = "done"
       /\ req'[r].resp.status = "403"
       /\ users' = users

\* C13: a start-trial on an account that has a trial record, active, expired or
\* exhausted, fails with 403 and leaves the stored trial as it was.
C13_SecondTrialRefused == [][AlreadyGranted]_vars

\* definitions for C14
TrialKept ==
  \A a \in Accounts :
    (Exists(a) /\ Stored(a).trial # None)
    => /\ users'[a] # None
       /\ users'[a][1].trial # None
       /\ users'[a][1].trial[1].startedAt = Stored(a).trial[1].startedAt
       /\ users'[a][1].trial[1].consumedMinutes >= Stored(a).trial[1].consumedMinutes

\* C14: once a trial record is stored no step removes it or replaces it with a
\* fresh one: its startedAt never changes, its consumedMinutes never decreases.
C14_OneTrialPerLifetime == [][TrialKept]_vars

\* definitions for C15
ExpiredAtCheck(a) ==
  /\ Exists(a) /\ Stored(a).trial # None
  /\ Stored(a).trial[1].active
  /\ Stored(a).trial[1].expiresAt < clock

ExpiryFlips ==
  \A r \in Reqs :
    \* the handler finds the trial expired and answers in the same run
    /\ ( /\ req[r].kind = "usageConsume" /\ req[r].pc = "loadUser"
         /\ req'[r].pc = "done" /\ req'[r].resp.status = "402"
         /\ ExpiredAtCheck(req[r].userId) )
       => ~users'[req[r].userId][1].trial[1].active
    \* consumeTrialMinutes finds the trial expired
    /\ ( /\ req[r].op.fn = "consumeTrialMinutes" /\ Runs(r)
         /\ ExpiredAtCheck(req[r].userId) )
       => ~users'[req[r].userId][1].trial[1].active

\* C15: a /usage/consume or a consumeTrialMinutes that finds the trial expired
\* while active is still true leaves the stored trial with active = false.
C15_ExpiryDeactivates == [][ExpiryFlips]_vars

\* definitions for C16

\* C16: in every stored state a trial whose minutes are exhausted
\* (consumedMinutes = maxMinutes) has active = false.
C16_ExhaustedInactive ==
  \A a \in Accounts :
    ( /\ Exists(a) /\ Stored(a).trial # None
      /\ Stored(a).trial[1].consumedMinutes = Stored(a).trial[1].maxMinutes )
    => ~Stored(a).trial[1].active

\* definitions for C17
BadSignature(in) ==
  in.razorpay_signature
    # createHmac(RAZORPAY_KEY_SECRET, <<in.razorpay_order_id, "|", in.razorpay_payment_id>>)

ForgedRejected ==
  \A r \in Reqs :
    ( /\ req[r].kind = "none" /\ req'[r].kind = "subscriptionConfirm"
      /\ BadSignature(req'[r].in) )
    => /\ req'[r].pc = "done"
       /\ req'[r].resp.status = "400"
       /\ req'[r].resp.error = "Invalid signature"
       /\ users' = users
       /\ chain' = chain

ForgedNeverQueued ==
  \A r \in Reqs :
    (req[r].kind = "subscriptionConfirm" /\ BadSignature(req[r].in))
    => req[r].pc = "done" /\ req[r].op = NoOp /\ req[r].resp.status = "400"

\* C17: a /subscription/confirm whose signature is not the HMAC of
\* orderId|paymentId under the secret is answered 400 Invalid signature in the
\* run that receives it: no operation is handed to the store and the document
\* is unchanged, whatever its intent, planId and amount.
C17_InvalidSignature == []ForgedNeverQueued /\ [][ForgedRejected]_vars

C17_Witness ==
  \E r, q \in Reqs :
    /\ req[r].kind = "subscriptionConfirm" /\ req[r].in.intent = "plan"
    /\ BadSignature(req[r].in) /\ req[r].resp.error = "Invalid signature"
    /\ req[q].kind = "subscriptionConfirm" /\ req[q].in.intent = "wallet"
    /\ BadSignature(req[q].in) /\ req[q].resp.error = "Invalid signature"
    /\ users = users0

\* definitions for C18
\* the write of the operation that r awaits completes in this step
Writes(r) == req[r].phase = "running" /\ req'[r].phase # "running"

OneEffect ==
  \A r \in Reqs :
    req[r].kind = "subscriptionConfirm" =>
      LET a == req[r].userId
          before == users[a][1]
          after == users'[a][1]
      IN /\ (Writes(r) /\ req[r].pc = "activatePlan") =>
               /\ req[r].in.intent = "plan"
               /\ after.activePlan # None
               /\ after.activePlan[1].planId = req[r].in.planId
               /\ after.walletBalancePaise = before.walletBalancePaise
               /\ after.paymentHistory = before.paymentHistory
               /\ after.trial = before.trial
         /\ (Writes(r) /\ req[r].pc = "adjustWallet") =>
               /\ req[r].in.intent = "wallet"
               /\ after.walletBalancePaise
                    = before.walletBalancePaise + req[r].in.amountInPaise
               /\ after.activePlan = before.activePlan
               /\ after.paymentHistory = before.paymentHistory
               /\ after.trial = before.trial
         /\ (Writes(r) /\ req[r].pc = "recordPayment") =>
               /\ Len(after.paymentHistory)
                    = Min(Len(before.paymentHistory) + 1, HISTORY_CAP)
               /\ after.paymentHistory[1].type = req[r].in.intent
               /\ after.paymentHistory[1].razorpayOrderId = req[r].in.razorpay_order_id
               /\ after.paymentHistory[1].razorpayPaymentId = req[r].in.razorpay_payment_id
               /\ \A i \in 2..Len(after.paymentHistory) :
                    after.paymentHistory[i] = before.paymentHistory[i - 1]
               /\ after.activePlan = before.activePlan
               /\ after.walletBalancePaise = before.walletBalancePaise
               /\ after.trial = before.trial
         /\ (req[r].pc = "loadUser" /\ req'[r] # req[r]) => users' = users

\* a confirm goes through one effect, then recordPayment, then loadUser, and
\* answers 200 only from there
EffectThenRecord ==
  \A r \in Reqs :
    req'[r].kind = "subscriptionConfirm" /\ req'[r].pc # req[r].pc =>
      /\ req'[r].pc = "activatePlan" =>
            req[r].kind = "none" /\ req'[r].in.intent = "plan"
      /\ req'[r].pc = "adjustWallet" =>
            req[r].kind = "none" /\ req'[r].in.intent = "wallet"
      /\ req'[r].pc = "recordPayment" =>
            req[r].pc \in {"activatePlan", "adjustWallet"} /\ Writes(r)
      /\ req'[r].pc = "loadUser" => req[r].pc = "recordPayment" /\ Writes(r)
      /\ (req'[r].pc = "done" /\ req'[r].resp.status = "200") => req[r].pc = "loadUser"

\* C18: a confirmed payment applies one effect, the plan replaced or the wallet
\* increased by the amount, never both and never neither, and then adds one
\* PaymentRecord of its type, order id and payment id at the head of the history.
C18_OneEffectOneRecord == [][OneEffect /\ EffectThenRecord]_vars

C18_Witness ==
  \E r, q \in Reqs :
    /\ req[r].kind = "subscriptionConfirm" /\ req[r].in.intent = "wallet"
    /\ req[r].pc = "done" /\ req[r].resp.status = "200"
    /\ req[q].kind = "subscriptionConfirm" /\ req[q].in.intent = "plan"
    /\ req[q].pc = "done" /\ req[q].resp.status = "200"
    /\ req[q].waited
    /\ Len(Stored(req[r].userId).paymentHistory)
         = Len(users0[req[r].userId][1].paymentHistory) + 2
    /\ Stored(req[r].userId).walletBalancePaise
         = users0[req[r].userId][1].walletBalancePaise + req[r].in.amountInPaise
    /\ Stored(req[r].userId).activePlan[1].planId = req[q].in.planId

\* definitions for C19
IsPurchased(plan, planId) ==
  /\ plan.planId = planId
  /\ plan.remainingMinutes = PLANS[planId].minutesIncluded
  /\ plan.expiresAt = plan.activatedAt + PLAN_DURATION_MS

PlanReplaced ==
  \A r \in Reqs :
    ( /\ req[r].kind = "subscriptionConfirm" /\ req[r].pc = "activatePlan"
      /\ Writes(r) )
    => /\ users'[req[r].userId][1].activePlan # None
       /\ IsPurchased(users'[req[r].userId][1].activePlan[1], req[r].in.planId)
       /\ users'[req[r].userId][1].activePlan[1].activatedAt <= clock
       /\ users'[req[r].userId][1].activePlan[1].activatedAt >= 0

PurchasedAtAnswer ==
  \A r \in Reqs :
    ( /\ req[r].kind = "subscriptionConfirm" /\ req[r].in.intent = "plan"
      /\ req[r].resp.status = "200"
      /\ \A q \in Reqs \ {r} : req[q].kind = "none" )
    => /\ Stored(req[r].userId).activePlan # None
       /\ IsPurchased(Stored(req[r].userId).activePlan[1], req[r].in.planId)

\* C19: the activatePlan of a confirmed purchase replaces the plan wholesale:
\* planId is the purchased plan, remainingMinutes its minutesIncluded whatever
\* was left on the previous plan, expiresAt is activatedAt plus 30 days.
C19_PlanReplacedWholesale == []PurchasedAtAnswer /\ [][PlanReplaced]_vars

C19_Witness ==
  \E r \in Reqs :
    /\ req[r].kind = "subscriptionConfirm" /\ req[r].in.planId = "creator-pro"
    /\ req[r].resp.status = "200"
    /\ \A q \in Reqs \ {r} : req[q].kind = "none"
    /\ users0[req[r].userId][1].activePlan # None
    /\ users0[req[r].userId][1].activePlan[1].remainingMinutes > 0
    /\ users0[req[r].userId][1].activePlan[1].planId = "editor-basic"
    /\ Stored(req[r].userId).activePlan[1].remainingMinutes = 500 * MinuteUnits

\* definitions for C20
HistoryCapped ==
  \A a \in Accounts :
    Exists(a) =>
      /\ Len(Stored(a).paymentHistory) <= HISTORY_CAP
      /\ \A i, j \in 1..Len(Stored(a).paymentHistory) :
           i < j => Stored(a).paymentHistory[i].createdAt
                      >= Stored(a).paymentHistory[j].createdAt

DropsOldest ==
  \A r \in Reqs :
    (req[r].op.fn = "recordPayment" /\ Writes(r)) =>
      LET before == users[req[r].userId][1].paymentHistory
          after == users'[req[r].userId][1].paymentHistory
      IN /\ Len(after) = (IF Len(before) < HISTORY_CAP THEN Len(before) + 1
                                                      ELSE HISTORY_CAP)
         /\ after[1].razorpayOrderId = req[r].op.arg.razorpayOrderId
         /\ after[1].type = req[r].op.arg.type
         /\ after[1].amountInPaise = req[r].op.arg.amountInPaise
         /\ \A i \in 2..Len(after) : after[i] = before[i - 1]

\* C20: every stored paymentHistory has at most 50 entries, newest first;
\* recordPayment puts the new record first and keeps the others in their order,
\* dropping the oldest one when there were 50.
C20_HistoryCap == []HistoryCapped /\ [][DropsOldest]_vars

C20_Witness ==
  /\ Len(users0["u1"][1].paymentHistory) = HISTORY_CAP
  /\ Len(Stored("u1").paymentHistory) = HISTORY_CAP
  /\ Stored("u1").paymentHistory[1].razorpayOrderId = "order_1"
  /\ Stored("u1").paymentHistory[2].razorpayOrderId = "order_2"
  /\ Stored("u1").paymentHistory[HISTORY_CAP]
       = users0["u1"][1].paymentHistory[HISTORY_CAP - 2]

\* definitions for C21
ProfileFields == {"email", "name", "picture"}

\* the profile argument brings no value that the stored record does not hold
NoNewHints(user, profile) ==
  profile = None
    \/ \A f \in ProfileFields : profile[1][f] = None \/ profile[1][f] = user[f]

GetOrCreateIdempotent ==
  \A r \in Reqs :
    ( /\ req[r].op.fn = "getOrCreateUser"
      /\ Runs(r) \/ Writes(r)
      /\ Exists(req[r].op.userId)
      /\ NoNewHints(Stored(req[r].op.userId), req[r].op.arg) )
    => /\ users' = users
       /\ req'[r].pc = "done" =>
            /\ req'[r].resp.status = "resolved"
            /\ req'[r].resp.value = users[req[r].op.userId]

\* C21: getOrCreateUser on an existing account, with no new profile hints,
\* returns the stored record as it is, createdAt and updatedAt included, and
\* leaves the stored document unchanged.
C21_GetOrCreateIdempotent == [][GetOrCreateIdempotent]_vars

\* definitions for C22
GetOrCreateFrame ==
  \A r \in Reqs :
    (req[r].op.fn = "getOrCreateUser" /\ (Runs(r) \/ Writes(r))) =>
      LET a == req[r].op.userId
          profile == req[r].op.arg
      IN IF ~Exists(a)
           THEN Writes(r) =>
                  /\ users'[a] # None
                  /\ users'[a][1].walletBalancePaise = 0
                  /\ users'[a][1].trial = None
                  /\ users'[a][1].activePlan = None
                  /\ users'[a][1].paymentHistory = <<>>
                  /\ \A f \in ProfileFields :
                       users'[a][1][f] = (IF profile = None THEN None ELSE profile[1][f])
           ELSE /\ users'[a] # None
                /\ users'[a][1].walletBalancePaise = Stored(a).walletBalancePaise
                /\ users'[a][1].trial = Stored(a).trial
                /\ users'[a][1].activePlan = Stored(a).activePlan
                /\ users'[a][1].paymentHistory = Stored(a).paymentHistory
                /\ users'[a][1].createdAt = Stored(a).createdAt
                /\ \A f \in ProfileFields :
                     users'[a][1][f] =
                       (IF Writes(r) /\ profile # None /\ profile[1][f] # None
                          THEN profile[1][f] ELSE Stored(a)[f])

\* C22: getOrCreateUser creates an unknown account with zero wallet, no trial,
\* no plan and an empty history; on an existing account it keeps wallet, trial,
\* plan, history and createdAt, and overwrites a profile field only with a
\* value that is supplied, never clearing a stored one.
C22_GetOrCreateFrame == [][GetOrCreateFrame]_vars

C22_Witness ==
  \E r, q \in Reqs :
    /\ req[r].kind = "getOrCreateUser" /\ req[r].userId = "u1"
    /\ req[r].op = NoOp /\ req[r].resp.status = "resolved"
    /\ users0["u1"] # None
    /\ Stored("u1").email = Some("b@x")
    /\ Stored("u1").name = Some("A")
    /\ Stored("u1").picture = Some("b.png")
    /\ Stored("u1").walletBalancePaise = 1000
    /\ req[q].kind = "getOrCreateUser" /\ req[q].userId = "u2"
    /\ req[q].resp.status = "resolved"
    /\ users0["u2"] = None
    /\ Stored("u2").walletBalancePaise = 0 /\ Stored("u2").paymentHistory = <<>>

\* definitions for C23
\* the mutator of the operation raises on the stored account
MutatorRaises(op, user, t) ==
  \/ op.fn = "adjustWallet" /\ user.walletBalancePaise + op.arg < 0
  \/ /\ op.fn = "consumeTrialMinutes"
     /\ \/ user.trial = None
        \/ ~user.trial[1].active
        \/ user.trial[1].expiresAt < t
        \/ user.trial[1].consumedMinutes + op.arg > user.trial[1].maxMinutes

FailureLeavesDocument ==
  \A r \in Reqs :
    (Runs(r) /\ req[r].op.fn \in UpdateFns) =>
      /\ ~Exists(req[r].op.userId) =>
            Fails(r) /\ req'[r].resp.error = "User not found"
      /\ ( /\ Exists(req[r].op.userId)
           /\ MutatorRaises(req[r].op, Stored(req[r].op.userId), clock) )
         => Fails(r)
      /\ Fails(r) => users' = users /\ req'[r].phase = "none"

\* C23: updateUser fails with NotFound on an unknown account, fails when the
\* mutator raises, and a failed updateUser never writes: the stored document
\* after it equals the stored document before it.
C23_FailedUpdateWritesNothing == [][FailureLeavesDocument]_vars

C23_Witness ==
  \E r, q \in Reqs :
    /\ req[q].resp.status = "rejected" /\ req[q].resp.error = "User not found"
    /\ req[r].resp.status = "rejected"
    /\ req[r].resp.error \in {"Insufficient wallet balance", "Trial expired"}
    /\ users = users0

\* definitions for C24
OthersUntouched ==
  /\ \A r \in Reqs :
       (Runs(r) \/ Writes(r)) =>
         \A b \in Accounts \ {req[r].op.userId} : users'[b] = users[b]
  /\ users' # users => \E r \in Reqs : Writes(r)

NothingDropped ==
  (\A r \in Reqs : req[r].pc = "done") =>
    \A a \in Accounts :
      /\ ( \/ users0[a] # None
           \/ \E r \in Reqs : /\ req[r].kind = "getOrCreateUser" /\ req[r].userId = a
                               /\ req[r].resp.status = "resolved" )
         => Exists(a)
      /\ Exists(a) =>
           Stored(a).walletBalancePaise
             = (IF users0[a] = None THEN 0 ELSE users0[a][1].walletBalancePaise)
                 + SucceededDeltas(a, MaxReqs)

\* C24: an operation on one account leaves the stored record of every other
\* account as it was, in every interleaving, and once all operations have
\* settled no account has lost the effect of an operation that succeeded.
C24_OtherAccountsUntouched == []NothingDropped /\ [][OthersUntouched]_vars

C24_Witness ==
  \E r, q \in Reqs :
    /\ req[r].kind = "adjustWallet" /\ req[r].userId = "u1"
    /\ req[r].in.amountInPaise = 500 /\ req[r].resp.status = "resolved"
    /\ req[q].kind = "getOrCreateUser" /\ req[q].userId = "u2"
    /\ req[q].resp.status = "resolved"
    /\ req[r].waited \/ req[q].waited
    /\ users0["u1"] # None /\ users0["u2"] = None
    /\ Stored("u1").walletBalancePaise = users0["u1"][1].walletBalancePaise + 500
    /\ Exists("u2")

\* definitions for C27
\* the records that the confirmation (orderId, paymentId) has added to a history
RecordsOf(history, orderId, paymentId) ==
  { i \in 1..Len(history) : /\ history[i].razorpayOrderId = orderId
                            /\ history[i].razorpayPaymentId = paymentId
                            /\ history[i].createdAt >= 0 }

\* C27: a payment confirmation is applied at most once: the history of an account
\* holds at most one record of a given order id and payment id, however often
\* the confirmation is submitted.
C27_ConfirmedAtMostOnce ==
  \A a \in Accounts :
    Exists(a) =>
      Cardinality(RecordsOf(Stored(a).paymentHistory, "order_1", "pay_1")) <= 1

\* definitions for C28
TopUpCredits ==
  \A r \in Reqs :
    ( /\ req[r].kind = "subscriptionConfirm" /\ req[r].pc = "adjustWallet"
      /\ Writes(r) )
    => users'[req[r].userId][1].walletBalancePaise
         > users[req[r].userId][1].walletBalancePaise

\* C28: the write of a wallet-intent /subscription/confirm increases the stored
\* wallet balance, for every amountInPaise the request body carries.
C28_TopUpNeverDebits == [][TopUpCredits]_vars

\* definitions for C29
ExpiredPlanSkipped ==
  \A r \in Reqs :
    ( /\ req[r].kind = "usageConsume" /\ req[r].pc = "loadUser"
      /\ req'[r] # req[r]
      /\ Exists(req[r].userId)
      /\ Stored(req[r].userId).activePlan # None
      /\ Stored(req[r].userId).activePlan[1].expiresAt < clock )
    => req'[r].pc # "plan"

\* C29: a /usage/consume handled after activePlan.expiresAt does not take the
\* plan as its source.
C29_ExpiredPlanNeverFunds == [][ExpiredPlanSkipped]_vars

\* definitions for C30

\* C30: every stored activePlan has 0 <= remainingMinutes <= the minutesIncluded
\* of the plan its planId names.
C30_PlanMinutesInRange ==
  \A a \in Accounts :
    (Exists(a) /\ Stored(a).activePlan # None) =>
      /\ Stored(a).activePlan[1].remainingMinutes >= 0
      /\ Stored(a).activePlan[1].remainingMinutes
           <= PLANS[Stored(a).activePlan[1].planId].minutesIncluded

C30_Witness ==
  \E r, q \in Reqs :
    /\ req[r].kind = "ensureActivePlanMinutes" /\ req[r].resp.status = "rejected"
    /\ req[r].resp.error = "Insufficient plan minutes"
    /\ req[q].kind = "usageConsume" /\ req[q].resp.status = "200"
    /\ req[q].resp.source = "plan"
    /\ Stored(req[q].userId).activePlan[1].remainingMinutes < 2 * MinuteUnits

\* definitions for C25
InSeq(x, seq) == \E i \in 1..Len(seq) : seq[i] = x

SuccessSources == {"plan", "trial", "wallet"}

\* generateSrt is called in the run that receives the success of /usage/consume,
\* and the only requests sent to the server are the /usage/consume of the runs
DebitThenCall ==
  /\ \A k \in GenerateRuns :
       (InSeq(k, app'.calls) /\ ~InSeq(k, app.calls)) =>
         /\ app.run[k].pc = "consume"
         /\ app'.run[k].usage \in SuccessSources
  /\ \A k \in GenerateRuns :
       (app.run[k].pc = "generate" /\ app'.run[k].pc = "done") =>
         app'.requests = app.requests

OneConsumePerRun ==
  /\ \A k \in GenerateRuns :
       InSeq(k, app.calls) => app.run[k].usage \in SuccessSources
  /\ \A k \in GenerateRuns :
       (app.run[k].pc = "done" /\ app.run[k].usage \notin SuccessSources) =>
         ~InSeq(k, app.calls)
  /\ Len(app.requests) = Cardinality({k \in GenerateRuns : app.run[k].pc # "idle"})
  /\ \A i \in 1..Len(app.requests) :
       /\ app.requests[i][2] = "/usage/consume"
       /\ app.run[app.requests[i][1]].pc # "idle"

\* C25: handleGenerate calls generateSrt only after the /usage/consume of the
\* same run has returned success; when it fails generateSrt is never called,
\* and a failed generateSrt sends no refund or other request to the server.
C25_DebitThenCall == []OneConsumePerRun /\ [][DebitThenCall]_vars

C25_Witness ==
  \E k, j \in GenerateRuns :
    /\ app.run[k].pc = "done" /\ app.run[k].usage = "wallet"
    /\ InSeq(k, app.calls) /\ app.srtContent # k
    /\ app.error = "Failed to generate subtitles."
    /\ app.run[j].pc = "done" /\ app.run[j].usage = "Insufficient balance"
    /\ ~InSeq(j, app.calls)
    /\ Len(app.requests) = 2

\* definitions for C26

\* C26: the response of a generation the user has cancelled is discarded: its
\* text is never written to srtContent nor to the history.
C26_CancelledDiscarded ==
  \A k \in GenerateRuns :
    app.run[k].cancelled =>
      /\ app.srtContent # k
      /\ ~InSeq(k, app.history)
      /\ ~InSeq(k, app.localStorage)

====
